---- MODULE Spec2Model ----
(***************************************************************************)
(* Model of shadowsocks/lru_cache.py: class LRUCache, a key-value cache    *)
(* that evicts entries by time since last access.                          *)
(*                                                                         *)
(* The four structures of the class are the variables _store,              *)
(* _keys_to_last_time, _time_to_keys and _last_visits.  time.time() is the *)
(* variable now, an integer tick that never decreases.  Every method is    *)
(* one atomic action (the class is single-threaded); sweep() is computed   *)
(* by the recursive operators SweepLoop, CallbackLoop and PopLoop, which   *)
(* follow the loops of the method statement by statement.                  *)
(***************************************************************************)
EXTENDS Integers, Sequences, FiniteSets, TLC

\* ------------------------------------------------------------------ bounds
MaxTime == 3        \* the clock runs over 0..MaxTime
MaxVisits == 2      \* cap on len(_last_visits)
MaxTimeout == 1     \* timeout is chosen in 1..MaxTimeout

\* keys and values used by the callers (test() uses 'a', 'b' and 1, 2, 3)
Keys == {"a", "b"}
Values == {1, 2}

VARIABLES
    timeout,             \* self.timeout
    close_callback,      \* TRUE iff self.close_callback is not None
    _store,              \* dict key -> value
    _time_to_keys,       \* defaultdict(list): time -> list of keys
    _keys_to_last_time,  \* dict key -> time
    _last_visits,        \* deque of times
    now,                 \* the value time.time() returns
    hist,                \* history of the calls made, per key (see HistSet)
    counting,            \* TRUE iff the accesses are counted (SpecCost),
                         \* FALSE iff the history per key is kept (Spec)
    recorded,            \* accesses recorded since the last sweep() call
    lastOp               \* the last call made and what it returned

vars == <<timeout, close_callback, _store, _time_to_keys, _keys_to_last_time,
          _last_visits, now, hist, counting, recorded, lastOp>>

cache == <<_store, _time_to_keys, _keys_to_last_time, _last_visits>>

\* ------------------------------------------------------------ dict helpers
EmptyDict == [x \in {} |-> 0]

\* d[k] = v
Put(d, k, v) == [x \in (DOMAIN d) \cup {k} |-> IF x = k THEN v ELSE d[x]]

\* del d[k]
Del(d, k) == [x \in (DOMAIN d) \ {k} |-> d[x]]

\* defaultdict(list).__getitem__ followed by append
BucketAppend(d, t, k) ==
    Put(d, t, Append(IF t \in DOMAIN d THEN d[t] ELSE <<>>, k))

\* --------------------------------------------------------- call recording
NoKey == ""
NoVal == 0

\* a call: its name, its key, ok = it returned without raising (for contains:
\* the answer), the value it returned, and for sweep the calls it made to
\* close_callback and the keys of the bucket entries it consumed
Op(name, key, ok, val, calls, seen) ==
    [op |-> name, key |-> key, ok |-> ok, val |-> val, calls |-> calls,
     seen |-> seen]

\* hist[k] is what the calls made so far say about key k, kept apart from the
\* cache's own structures: val = the value of its most recent set, t = the
\* time of its most recent set or successful get, pristine = no get, set,
\* contains or delete of k came after that set (for a deleted key: after the
\* delete), st = "live", "deleted" (by delete) or "evicted" (by sweep),
\* over = that set replaced the value of a key that was live
HistSet(h, k, v, t) ==
    Put(h, k, [val |-> v, t |-> t, pristine |-> TRUE, st |-> "live",
               over |-> (k \in DOMAIN h /\ h[k].st = "live")])

HistGet(h, k, t) ==
    IF k \notin DOMAIN h THEN h
    ELSE IF h[k].st = "live" THEN [h EXCEPT ![k].t = t, ![k].pristine = FALSE]
    ELSE [h EXCEPT ![k].pristine = FALSE]

HistContains(h, k) ==
    IF k \in DOMAIN h THEN [h EXCEPT ![k].pristine = FALSE] ELSE h

HistDel(h, k) ==
    IF k \notin DOMAIN h THEN h
    ELSE Put(h, k, [val |-> NoVal, t |-> 0, pristine |-> TRUE,
                    st |-> "deleted", over |-> FALSE])

HistEvict(h, removed) ==
    [k \in DOMAIN h |-> IF k \in removed THEN [h[k] EXCEPT !.st = "evicted"]
                        ELSE h[k]]

\* ------------------------------------------------------------------- Init
\* the history per key, kept only where the accesses are not counted
Observed(h) == IF counting THEN hist ELSE h

\* one more access recorded (counted only where the count is observed)
Recorded(n) == IF counting THEN n + 1 ELSE n

InitCache ==
    /\ timeout \in 1..MaxTimeout
    /\ close_callback \in BOOLEAN
    /\ _store = EmptyDict
    /\ _time_to_keys = EmptyDict
    /\ _keys_to_last_time = EmptyDict
    /\ _last_visits = <<>>
    /\ now = 0
    /\ hist = EmptyDict
    /\ recorded = 0
    /\ lastOp = Op("init", NoKey, TRUE, NoVal, <<>>, <<>>)

Init == InitCache /\ counting = FALSE

\* the same cache, with the accesses between two sweeps counted
InitCost == InitCache /\ counting = TRUE

\* ------------------------------------------------------------ __getitem__
\* The access is recorded before self._store[key] is evaluated, so it is
\* recorded also when that lookup raises KeyError.
\* a get that leaves the last time of a key it already knows
KeepFirstTime(key) ==
    IF key \in DOMAIN _keys_to_last_time THEN _keys_to_last_time
    ELSE Put(_keys_to_last_time, key, now)

RecordedLastTime(key) == Put(_keys_to_last_time, key, now)

\* a get that records the key in the bucket but not in the log
GetItemNoLog(key) ==
    /\ _keys_to_last_time' = RecordedLastTime(key)
    /\ _time_to_keys' = BucketAppend(_time_to_keys, now, key)
    /\ _last_visits' = _last_visits
    /\ _store' = _store

\* a get that records the time in the log but not the key in the bucket
GetItemNoBucket(key) ==
    /\ _keys_to_last_time' = RecordedLastTime(key)
    /\ _time_to_keys' = _time_to_keys
    /\ _last_visits' = Append(_last_visits, now)
    /\ _store' = _store

GetItemEffect(key) ==
    /\ _keys_to_last_time' = RecordedLastTime(key)
    /\ _time_to_keys' = BucketAppend(_time_to_keys, now, key)
    /\ _last_visits' = Append(_last_visits, now)
    /\ _store' = _store

GetItem(key) ==
    /\ Len(_last_visits) < MaxVisits
    /\ GetItemEffect(key)
    /\ hist' = Observed(HistGet(hist, key, now))
    /\ recorded' = Recorded(recorded)
    /\ lastOp' = Op("get", key, key \in DOMAIN _store,
                    IF key \in DOMAIN _store THEN _store[key] ELSE NoVal, <<>>, <<>>)
    /\ UNCHANGED <<timeout, close_callback, now, counting>>

\* Mapping.__contains__ (inherited): try self[key] / except KeyError
Contains(key) ==
    /\ Len(_last_visits) < MaxVisits
    /\ GetItemEffect(key)
    /\ hist' = Observed(HistContains(hist, key))
    /\ recorded' = Recorded(recorded)
    /\ lastOp' = Op("contains", key, key \in DOMAIN _store, NoVal, <<>>, <<>>)
    /\ UNCHANGED <<timeout, close_callback, now, counting>>

\* ------------------------------------------------------------ __setitem__
\* a set that keeps the value of a key that is already there
KeepOld(key, value) == IF key \in DOMAIN _store THEN _store[key] ELSE value

\* self._store[key] = value
StoredValue(key, value) == value

SetItem(key, value) ==
    /\ Len(_last_visits) < MaxVisits
    /\ _keys_to_last_time' = Put(_keys_to_last_time, key, now)
    /\ _store' = Put(_store, key, StoredValue(key, value))
    /\ _time_to_keys' = BucketAppend(_time_to_keys, now, key)
    /\ _last_visits' = Append(_last_visits, now)
    /\ hist' = Observed(HistSet(hist, key, value, now))
    /\ recorded' = Recorded(recorded)
    /\ lastOp' = Op("set", key, TRUE, value, <<>>, <<>>)
    /\ UNCHANGED <<timeout, close_callback, now, counting>>

\* ------------------------------------------------------------ __delitem__
\* a delete that forgets the last-time index
KeepLastTime(key) == _keys_to_last_time

\* del self._keys_to_last_time[key]
DelLastTime(key) == Del(_keys_to_last_time, key)

\* del self._store[key] raises KeyError for a key that is not there, before
\* anything is changed: that call is no step
DelItem(key) ==
    /\ key \in DOMAIN _store
    /\ _store' = Del(_store, key)
    /\ _keys_to_last_time' = DelLastTime(key)
    /\ hist' = Observed(HistDel(hist, key))
    /\ lastOp' = Op("delete", key, TRUE, NoVal, <<>>, <<>>)
    /\ UNCHANGED <<timeout, close_callback, _time_to_keys, _last_visits, now,
                   counting, recorded>>

\* ---------------------------------------------------------------- __len__
\* return len(self._store): a read of the state
LenValue == Cardinality(DOMAIN _store)

\* ------------------------------------------------------------------ sweep
\* the working state of one sweep() call: the four structures, the calls made
\* to close_callback as <<key, value>>, the counter c, ok = no exception was
\* raised, hang = the while loop can make no progress
SweepState ==
    [store |-> _store, ttk |-> _time_to_keys, ktl |-> _keys_to_last_time,
     lv |-> _last_visits, calls |-> <<>>, seen |-> <<>>, c |-> 0, ok |-> TRUE,
     hang |-> FALSE]

\* eviction by bucket membership alone, without the check of the last time
ExpiredNoRecheck(s, key, t) == key \in DOMAIN s.store

\* a check of the last time that is one tick late
ExpiredLate(s, key, t) ==
    /\ key \in DOMAIN s.store
    /\ t - s.ktl[key] > timeout + 1

\* key in self._store and now - self._keys_to_last_time[key] > self.timeout
Expired(s, key, t) ==
    /\ key \in DOMAIN s.store
    /\ t - s.ktl[key] > timeout

\* close_callback(value): user code; it raises for the values in bad
CallbackRaises(value, bad) == value \in bad

\* a loop that takes the key out of the store before it calls close_callback
RECURSIVE CallbackLoopPopFirst(_, _, _, _)
CallbackLoopPopFirst(s, keys, t, bad) ==
    IF keys = <<>> THEN s
    ELSE LET key == Head(keys) IN
         IF Expired(s, key, t)
         THEN LET value == s.store[key]
                  s1 == [s EXCEPT !.calls = Append(@, <<key, value>>),
                                  !.store = Del(@, key),
                                  !.ktl = Del(@, key)]
              IN  IF CallbackRaises(value, bad)
                  THEN [s1 EXCEPT !.ok = FALSE]
                  ELSE CallbackLoopPopFirst(s1, Tail(keys), t, bad)
         ELSE CallbackLoopPopFirst(s, Tail(keys), t, bad)

\* a loop that pops the log entry of a key before it calls close_callback
RECURSIVE CallbackLoopPopping(_, _, _, _)
CallbackLoopPopping(s, keys, t, bad) ==
    IF keys = <<>> THEN s
    ELSE LET key == Head(keys) IN
         IF Expired(s, key, t)
         THEN LET value == s.store[key]
                  s1 == [s EXCEPT !.calls = Append(@, <<key, value>>),
                                  !.lv = IF @ = <<>> THEN @ ELSE Tail(@)]
              IN  IF CallbackRaises(value, bad)
                  THEN [s1 EXCEPT !.ok = FALSE]
                  ELSE CallbackLoopPopping(s1, Tail(keys), t, bad)
         ELSE CallbackLoopPopping(s, Tail(keys), t, bad)

\* for key in self._time_to_keys[least]: ... self.close_callback(value)
RECURSIVE CallbackLoop(_, _, _, _)
CallbackLoop(s, keys, t, bad) ==
    IF keys = <<>> THEN s
    ELSE LET key == Head(keys) IN
         IF Expired(s, key, t)
         THEN LET value == s.store[key]
                  s1 == [s EXCEPT !.calls = Append(@, <<key, value>>)]
              IN  IF CallbackRaises(value, bad)
                  THEN [s1 EXCEPT !.ok = FALSE]
                  ELSE CallbackLoop(s1, Tail(keys), t, bad)
         ELSE CallbackLoop(s, Tail(keys), t, bad)

\* a loop that pops the log only for the keys it finds in the store
RECURSIVE PopLoopSkip(_, _, _)
PopLoopSkip(s, keys, t) ==
    IF keys = <<>> THEN s
    ELSE LET key == Head(keys)
             s1 == IF key \in DOMAIN s.store /\ s.lv # <<>>
                   THEN [s EXCEPT !.lv = Tail(@), !.seen = Append(@, key)]
                   ELSE [s EXCEPT !.seen = Append(@, key)]
             s2 == IF Expired(s1, key, t)
                   THEN [s1 EXCEPT !.store = Del(@, key),
                                   !.ktl = Del(@, key),
                                   !.c = @ + 1]
                   ELSE s1
         IN  PopLoopSkip(s2, Tail(keys), t)

\* for key in self._time_to_keys[least]: popleft; delete the key if expired
\* (popleft of an empty deque raises IndexError)
RECURSIVE PopLoop(_, _, _)
PopLoop(s, keys, t) ==
    IF keys = <<>> THEN s
    ELSE IF s.lv = <<>> THEN [s EXCEPT !.ok = FALSE]
    ELSE LET key == Head(keys)
             s1 == [s EXCEPT !.lv = Tail(@), !.seen = Append(@, key)]
             s2 == IF Expired(s1, key, t)
                   THEN [s1 EXCEPT !.store = Del(@, key),
                                   !.ktl = Del(@, key),
                                   !.c = @ + 1]
                   ELSE s1
         IN  PopLoop(s2, Tail(keys), t)

\* a break that comes one tick late
FreshLate(t, least) == t - least <= timeout + 1

\* a break that comes one tick early
FreshEarly(t, least) == t - least < timeout

\* now - least <= self.timeout: break
Fresh(t, least) == t - least <= timeout

\* an if in the place of the while: one bucket per call
SweepOneBucket(s, t, bad) ==
    IF Len(s.lv) = 0 THEN s
    ELSE LET least == Head(s.lv) IN
         IF Fresh(t, least) THEN s
         ELSE LET bucket == IF least \in DOMAIN s.ttk THEN s.ttk[least]
                            ELSE <<>>
                  s1 == IF close_callback
                        THEN CallbackLoop(s, bucket, t, bad)
                        ELSE s
              IN  IF ~s1.ok THEN s1
                  ELSE LET s2 == PopLoop(s1, bucket, t) IN
                       IF ~s2.ok THEN s2 ELSE [s2 EXCEPT !.ttk = Del(@, least)]

\* while len(self._last_visits) > 0: ...
RECURSIVE SweepLoop(_, _, _)
SweepLoop(s, t, bad) ==
    IF Len(s.lv) = 0 THEN s
    ELSE LET least == Head(s.lv) IN
         IF Fresh(t, least) THEN s
         ELSE LET bucket == IF least \in DOMAIN s.ttk THEN s.ttk[least]
                            ELSE <<>>
                  s1 == IF close_callback
                        THEN CallbackLoop(s, bucket, t, bad)
                        ELSE s
              IN  IF ~s1.ok THEN s1
                  ELSE IF bucket = <<>> THEN [s1 EXCEPT !.hang = TRUE]
                  ELSE LET s2 == PopLoop(s1, bucket, t)
                           s3 == [s2 EXCEPT !.ttk = Del(@, least)]
                       IN  IF ~s2.ok THEN s2 ELSE SweepLoop(s3, t, bad)

\* the sets of values close_callback may fail for (none without a callback)
Failing == IF close_callback THEN SUBSET Values ELSE {{}}

\* a sweep whose while loop can make no progress never returns: the step to
\* "hang" stands for that call
Sweep(bad) ==
    LET s == SweepLoop(SweepState, now, bad) IN
    /\ _store' = s.store
    /\ _time_to_keys' = s.ttk
    /\ _keys_to_last_time' = s.ktl
    /\ _last_visits' = s.lv
    /\ hist' = Observed(HistEvict(hist, (DOMAIN _store) \ (DOMAIN s.store)))
    /\ recorded' = 0
    /\ lastOp' = Op(IF s.hang THEN "hang" ELSE "sweep", NoKey, s.ok, s.c,
                    s.calls, s.seen)
    /\ UNCHANGED <<timeout, close_callback, now, counting>>

\* ------------------------------------------------------------ time.time()
Tick ==
    /\ now < MaxTime
    /\ now' = now + 1
    /\ lastOp' = Op("tick", NoKey, TRUE, NoVal, <<>>, <<>>)
    /\ UNCHANGED <<timeout, close_callback, cache, hist, counting, recorded>>

\* ------------------------------------------------------------------- Next
Next ==
    \/ \E key \in Keys : GetItem(key)
    \/ \E key \in Keys : Contains(key)
    \/ \E key \in Keys, value \in Values : SetItem(key, value)
    \/ \E key \in Keys : DelItem(key)
    \/ \E bad \in Failing : Sweep(bad)
    \/ Tick

Spec == Init /\ [][Next]_vars

SpecCost == InitCost /\ [][Next]_vars

TypeOK ==
    /\ DOMAIN _store \subseteq Keys
    /\ \A k \in DOMAIN _store : _store[k] \in Values
    /\ Len(_last_visits) <= MaxVisits
    /\ now \in 0..MaxTime

\* ================================================================= claims
\* k was set and no get, set, contains or delete of k followed
Untouched(k) ==
    k \in DOMAIN hist /\ hist[k].st # "deleted" /\ hist[k].pristine

AfterSweep == lastOp.op = "sweep" /\ lastOp.ok

RefreshSafe ==
    \A k \in Keys :
        (/\ lastOp.op = "sweep"
         /\ k \in DOMAIN hist
         /\ hist[k].st # "deleted"
         /\ now - hist[k].t <= timeout)
            => (k \in DOMAIN _store /\ _store[k] = hist[k].val)

\* a sweep has just consumed an old bucket entry of a key that was accessed
\* again within the timeout, and the key is still there
RefreshWitness ==
    \E k \in Keys :
        /\ AfterSweep
        /\ \E i \in 1..Len(lastOp.seen) : lastOp.seen[i] = k
        /\ k \in DOMAIN hist /\ hist[k].st = "live"
        /\ now - hist[k].t <= timeout
        /\ k \in DOMAIN _store /\ _store[k] = hist[k].val

\* the number of calls of close_callback a sweep made for key k
RECURSIVE CallCount(_, _)
CallCount(calls, k) ==
    IF calls = <<>> THEN 0
    ELSE (IF Head(calls)[1] = k THEN 1 ELSE 0) + CallCount(Tail(calls), k)

\* C3: close_callback is invoked exactly once for each key a sweep() removes,
\* with the value stored for it, and never by delete.
EvictOnce ==
    [][/\ (lastOp'.op = "sweep" /\ close_callback) =>
            \A k \in (DOMAIN _store) \ (DOMAIN _store') :
                /\ CallCount(lastOp'.calls, k) = 1
                /\ \E i \in 1..Len(lastOp'.calls) :
                       lastOp'.calls[i] = <<k, _store[k]>>
       /\ lastOp'.op = "delete" => lastOp'.calls = <<>>]_vars

\* C4: contains(key) leaves the value store, the last-time index, the bucket
\* index and the access log unchanged.
ContainsPure ==
    [][lastOp'.op = "contains" => UNCHANGED cache]_vars

\* C5: get(key) of a key that is not in the store leaves the last-time index,
\* the bucket index and the access log unchanged.
GetMissRecordsNothing ==
    [][(lastOp'.op = "get" /\ ~lastOp'.ok) =>
           UNCHANGED <<_keys_to_last_time, _time_to_keys, _last_visits>>]_vars

\* now - LastAccess[k] <= timeout
FreshKey(k) ==
    k \in DOMAIN _keys_to_last_time /\ now - _keys_to_last_time[k] <= timeout

\* C6: when close_callback fails for one stale key, the same sweep() still
\* removes every other key that is stale.
FailureIsolated ==
    lastOp.op = "sweep" =>
        LET failed == IF lastOp.ok THEN {}
                      ELSE {lastOp.calls[Len(lastOp.calls)][1]}
        IN  \A k \in (DOMAIN _store) \ failed : FreshKey(k)

\* C7: the keys of the last-time index are the keys of the value store.
StoreSync == DOMAIN _keys_to_last_time = DOMAIN _store

\* C8: after a sweep() that returned, every key still in the store has
\* now - LastAccess[k] <= timeout.
SweepComplete ==
    AfterSweep => \A k \in DOMAIN _store : FreshKey(k)

\* a sweep has just removed a stale key and kept a fresh one
SweepCompleteWitness ==
    /\ AfterSweep
    /\ lastOp.val > 0
    /\ \E k \in DOMAIN _store : FreshKey(k)

\* the keys the calls made so far leave in the cache
LiveKeys == {k \in DOMAIN hist : hist[k].st = "live"}

\* C9: get(k) finds k exactly when k was set and neither deleted nor evicted
\* since, and returns the value of its most recent set; len() is always the
\* number of such keys.
Overwrite ==
    /\ lastOp.op = "get" =>
           /\ lastOp.ok <=> lastOp.key \in LiveKeys
           /\ lastOp.ok => lastOp.val = hist[lastOp.key].val
    /\ LenValue = Cardinality(LiveKeys)

\* a get has just returned the value of a set that replaced an earlier value
\* of its key, the only key there is
OverwriteWitness ==
    /\ lastOp.op = "get" /\ lastOp.ok
    /\ hist[lastOp.key].over
    /\ lastOp.val = hist[lastOp.key].val
    /\ LenValue = 1

\* C10: delete(key) of a live key removes it from the store and the last-time
\* index and changes nothing else, without a call of close_callback; a sweep()
\* calls close_callback only for keys that are live and stale, with their
\* value, removes only such keys, and when it returns no stale bucket is left.
DeleteLazy ==
    [][/\ (lastOp'.op = "delete" /\ lastOp'.ok) =>
            /\ _store' = Del(_store, lastOp'.key)
            /\ _keys_to_last_time' = Del(_keys_to_last_time, lastOp'.key)
            /\ UNCHANGED <<_time_to_keys, _last_visits>>
            /\ lastOp'.calls = <<>>
       /\ lastOp'.op = "sweep" =>
            /\ \A i \in 1..Len(lastOp'.calls) :
                   LET k == lastOp'.calls[i][1] IN
                   /\ k \in LiveKeys
                   /\ now - hist[k].t > timeout
                   /\ lastOp'.calls[i][2] = hist[k].val
            /\ \A k \in (DOMAIN _store) \ (DOMAIN _store') :
                   k \in LiveKeys /\ now - hist[k].t > timeout
            /\ lastOp'.ok =>
                   \A t \in DOMAIN _time_to_keys' : now - t <= timeout]_vars

\* a sweep has just consumed the bucket entry a deleted key left behind, and
\* another key is still in the store
DeleteLazyWitness ==
    \E k \in Keys :
        /\ AfterSweep
        /\ k \in DOMAIN hist /\ hist[k].st = "deleted" /\ hist[k].pristine
        /\ \E i \in 1..Len(lastOp.seen) : lastOp.seen[i] = k
        /\ k \notin DOMAIN _store
        /\ \E j \in DOMAIN _store : j # k

\* the elements of a sequence
Range(seq) == {seq[i] : i \in 1..Len(seq)}

\* C11: for every key k in the store and every timestamp t whose bucket lists
\* k, LastAccess[k] exists and LastAccess[k] >= t.
LastAccessDominates ==
    \A k \in DOMAIN _store :
        /\ k \in DOMAIN _keys_to_last_time
        /\ \A t \in DOMAIN _time_to_keys :
               k \in Range(_time_to_keys[t]) => _keys_to_last_time[k] >= t

\* a live key is listed in the bucket of a time before its last access
LastAccessDominatesWitness ==
    \E k \in DOMAIN _store :
        \E t \in DOMAIN _time_to_keys :
            /\ k \in Range(_time_to_keys[t])
            /\ _keys_to_last_time[k] > t
            /\ k \in Range(_time_to_keys[_keys_to_last_time[k]])

\* C12 as stated: the bucket entries one sweep() examines (one log entry
\* popped for each) are never more than the accesses recorded since the
\* previous sweep() call.
SweepCostSinceLast ==
    [][lastOp'.op = "sweep" => Len(lastOp'.seen) <= recorded]_vars

\* C12 amended: one sweep() pops one log entry for each bucket entry it
\* examines, and never more than the log holds at the call, that is the
\* accesses recorded so far that no earlier sweep has popped (those recorded
\* since the previous sweep() call are among them).
SweepCostLog ==
    [][lastOp'.op \in {"sweep", "hang"} =>
           /\ Len(lastOp'.seen) <= Len(_last_visits)
           /\ Len(_last_visits') = Len(_last_visits) - Len(lastOp'.seen)
           /\ counting => recorded <= Len(_last_visits)]_vars

\* with the accesses counted, a sweep has just popped an entry and evicted
\* its key, and left a live key and its entry alone
SweepCostWitness ==
    /\ counting
    /\ AfterSweep
    /\ Len(lastOp.seen) >= 1
    /\ LenValue >= 1
    /\ Len(_last_visits) >= 1
    /\ lastOp.val >= 1

\* the number of occurrences of t in a sequence
Occurrences(seq, t) == Cardinality({i \in 1..Len(seq) : seq[i] = t})

\* every bucket is as long as its time occurs in the log, and every time in
\* the log has a bucket
Lockstep ==
    /\ \A t \in DOMAIN _time_to_keys :
           /\ _time_to_keys[t] # <<>>
           /\ Occurrences(_last_visits, t) = Len(_time_to_keys[t])
    /\ Range(_last_visits) \subseteq DOMAIN _time_to_keys

\* C13: after every operation the log and the buckets are in lockstep, and
\* the entries a sweep() pops from the front of the log are exactly the
\* occurrences of the times whose buckets it consumes.
LogBucketLockstep ==
    [][/\ Lockstep'
       /\ lastOp'.op = "sweep" =>
            LET n == Len(lastOp'.seen)
                gone == (DOMAIN _time_to_keys) \ (DOMAIN _time_to_keys')
            IN  /\ n <= Len(_last_visits)
                /\ _last_visits' = SubSeq(_last_visits, n + 1,
                                          Len(_last_visits))
                /\ \A i \in 1..Len(_last_visits) :
                       i <= n <=> _last_visits[i] \in gone
                /\ n = 0 <=> gone = {}]_vars

\* a sweep has just popped the entries of a bucket and left a later entry in
\* the log
LogBucketLockstepWitness ==
    /\ lastOp.op = "sweep"
    /\ Len(lastOp.seen) >= 1
    /\ _last_visits # <<>>
    /\ Lockstep

\* C14: a sweep() that returns at time now removes from the log and from the
\* buckets exactly the entries with now - t > timeout: the others stay, in
\* their order.
EarlyExitExact ==
    [][(lastOp'.op = "sweep" /\ lastOp'.ok) =>
           LET Kept(t) == now - t <= timeout IN
           /\ _last_visits' = SelectSeq(_last_visits, Kept)
           /\ DOMAIN _time_to_keys' = {t \in DOMAIN _time_to_keys : Kept(t)}
           /\ \A t \in DOMAIN _time_to_keys' :
                  _time_to_keys'[t] = _time_to_keys[t]]_vars

\* a sweep has just removed a stale entry and kept an entry at the boundary
\* now - t = timeout
EarlyExitWitness ==
    /\ AfterSweep
    /\ lastOp.seen # <<>>
    /\ \E t \in DOMAIN _time_to_keys : now - t = timeout
    /\ \A i \in 1..Len(_last_visits) : now - _last_visits[i] <= timeout

\* C15: the while loop of sweep() always finishes: the time at the front of
\* the log has a non-empty bucket, so every iteration that does not stop pops
\* at least one entry.
SweepTerminates ==
    /\ lastOp.op # "hang"
    /\ _last_visits # <<>> =>
           /\ Head(_last_visits) \in DOMAIN _time_to_keys
           /\ _time_to_keys[Head(_last_visits)] # <<>>

\* a sweep has just consumed two buckets, the second after a pass of the loop,
\* and returned
SweepTerminatesWitness ==
    /\ AfterSweep
    /\ Len(lastOp.seen) = 2
    /\ \E a \in Keys, b \in Keys :
           /\ lastOp.seen = <<a, b>>
           /\ Untouched(a) /\ Untouched(b)
           /\ hist[a].t < hist[b].t
           /\ hist[a].st = "evicted" /\ hist[b].st = "evicted"

\* the keys close_callback was called for
CalledKeys(calls) == {calls[i][1] : i \in 1..Len(calls)}

\* C16: when sweep() calls close_callback(v) for key k, k is in the store with
\* value v and has its last-time entry; k is removed from both only after the
\* call: a sweep that returns has removed it, a sweep that the call leaves by
\* an exception has not.
CallbackBeforeRemoval ==
    [][lastOp'.op = "sweep" =>
           \A i \in 1..Len(lastOp'.calls) :
               LET k == lastOp'.calls[i][1]
                   v == lastOp'.calls[i][2]
               IN  /\ k \in DOMAIN _store /\ _store[k] = v
                   /\ k \in DOMAIN _keys_to_last_time
                   /\ lastOp'.ok =>
                          /\ k \notin DOMAIN _store'
                          /\ k \notin DOMAIN _keys_to_last_time'
                   /\ (~lastOp'.ok /\ i = Len(lastOp'.calls)) =>
                          /\ k \in DOMAIN _store' /\ _store'[k] = v
                          /\ k \in DOMAIN _keys_to_last_time']_vars

\* close_callback has just raised for a key, which is still in the store with
\* the value it was called with
CallbackBeforeRemovalWitness ==
    /\ lastOp.op = "sweep" /\ ~lastOp.ok
    /\ lastOp.calls # <<>>
    /\ LET last == lastOp.calls[Len(lastOp.calls)] IN
       /\ last[1] \in DOMAIN _store
       /\ _store[last[1]] = last[2]
       /\ last[1] \in DOMAIN _keys_to_last_time

\* C17: a sweep() that close_callback leaves by an exception leaves the log
\* and the buckets in lockstep and the last times above the bucket times, has
\* removed no key it did not call close_callback for, and a sweep() that
\* follows it and returns leaves no stale key.
FailureKeepsInvariants ==
    [][/\ (lastOp'.op = "sweep" /\ ~lastOp'.ok) =>
            /\ Lockstep'
            /\ LastAccessDominates'
            /\ (DOMAIN _store) \ (DOMAIN _store')
                   \subseteq CalledKeys(lastOp'.calls)
       /\ (lastOp.op = "sweep" /\ ~lastOp.ok
              /\ lastOp'.op = "sweep" /\ lastOp'.ok) =>
            \A k \in DOMAIN _store' : FreshKey(k)']_vars

\* close_callback has just raised in the second bucket of a sweep, after the
\* key of the first bucket was removed
FailureKeepsInvariantsWitness ==
    /\ lastOp.op = "sweep" /\ ~lastOp.ok
    /\ lastOp.val > 0
    /\ Len(lastOp.calls) >= 2
    /\ DOMAIN _store # {}
    /\ _last_visits # <<>>

\* C18: every key k in the store is a member of the bucket of LastAccess[k],
\* and that time occurs in the log.
Discoverable ==
    \A k \in DOMAIN _store :
        /\ k \in DOMAIN _keys_to_last_time
        /\ _keys_to_last_time[k] \in DOMAIN _time_to_keys
        /\ k \in Range(_time_to_keys[_keys_to_last_time[k]])
        /\ _keys_to_last_time[k] \in Range(_last_visits)

\* a sweep has just consumed an older bucket entry of a key that is still in
\* the store and in the bucket of its last time
DiscoverableWitness ==
    \E k \in DOMAIN _store :
        /\ lastOp.op = "sweep"
        /\ k \in Range(lastOp.seen)
        /\ k \in Range(_time_to_keys[_keys_to_last_time[k]])
        /\ _keys_to_last_time[k] \in Range(_last_visits)

\* C19: a sweep() that returns at a time when every access in the log is older
\* than the timeout leaves the store, the last-time index, the buckets and the
\* log empty.
NoResidue ==
    [][(/\ lastOp'.op = "sweep" /\ lastOp'.ok
        /\ \A i \in 1..Len(_last_visits) : now - _last_visits[i] > timeout)
           => /\ DOMAIN _store' = {}
              /\ DOMAIN _keys_to_last_time' = {}
              /\ DOMAIN _time_to_keys' = {}
              /\ _last_visits' = <<>>]_vars

====
